---- MODULE Spec2Model ----
(***************************************************************************)
(* fool - a minimal version control system (src/main.go, second program    *)
(* text, lines 209-611).                                                   *)
(*                                                                         *)
(* Every file is modelled by its bytes: a text is a sequence of            *)
(* one-character strings.  The index and the log are written by the        *)
(* formatting code of cmdAdd and cmdCommit and read back by splitLines,    *)
(* splitLogEntries and getLastCommitFilesAndID, character by character.    *)
(***************************************************************************)
EXTENDS Naturals, Sequences, FiniteSets, TLC

VARIABLES
    marker,     \* TRUE iff the directory .fool exists
    index,      \* the file .fool/index: [exists, data]
    log,        \* the file .fool/log:   [exists, data]
    objects,    \* .fool/objects: commit id -> (path under objects/<id>/ -> bytes)
    wd,         \* the working directory: path -> bytes, for the files that exist
    now,        \* the wall clock at its last reading, in seconds
    last,       \* the most recent invocation: command, arguments, output, exit status
    requested,  \* history: [paths, distinct] of the add requests since the index was last empty
    history,    \* history: the commit records appended to the log, oldest first
    running,    \* the invocations in flight: process -> what it has read so far
    reports     \* history: [added, overlaps] of the paths reported Added and
                \* of the kinds of invocations that ran at the same time

\* the processes in flight and what is recorded about them
inflight == <<running, reports>>

vars == <<marker, index, log, objects, wd, now, last, requested, history, running, reports>>

-----------------------------------------------------------------------------
(* Bounds of the model.                                                    *)

MaxArgs == 2        \* paths given to one add invocation
MaxLines == 2       \* add does not append to an index of this many lines
MaxCommits == 1     \* commit records in the log
MaxLogCommits == 2  \* commit records in the log where the log is read back
MaxClock == 1       \* seconds on the clock when the last commit reads it

-----------------------------------------------------------------------------
(* Texts.                                                                  *)

NL == "\n"
CR == "\r"

Range(s) == {s[i] : i \in 1..Len(s)}

\* Go's s[a:b] (0-based, b exclusive)
Slice(s, a, b) == SubSeq(s, a + 1, b)


RECURSIVE Concat(_)
Concat(ss) == IF ss = <<>> THEN <<>> ELSE Head(ss) \o Concat(Tail(ss))

NoDup(s) == \A i, j \in 1..Len(s) : i # j => s[i] # s[j]

\* The file names of the model, in the order os.ReadDir lists them (by name):
\* two plain names, a name with a newline, a name with a space, and the name
\* of the metadata file of a snapshot.
MetaName == <<"m", "e", "t", "a", ".", "t", "x", "t">>
DotFool == <<".", "f", "o", "o", "l">>
DotGit == <<".", "g", "i", "t">>
NameList == << DotGit, <<"a">>, <<"a", "\n", "b">>, <<"a", " ", "b">>, <<"b">>, MetaName >>
StagingNames == { <<"a">>, <<"a", "\n", "b">>, <<"b">> }
StatusNames == { <<"a">>, <<"a", " ", "b">> }

\* A path that survives the newline-separated index format unchanged.
Plain(p) == p # <<>> /\ NL \notin Range(p) /\ p[Len(p)] # CR

\* A file name the "Files: [...]" line of the log gives back unchanged, and
\* that is not the name of the metadata file of a snapshot.
LogSafe(p) == Plain(p) /\ Range(p) \cap {"[", "]", " ", ","} = {} /\ p # MetaName

\* A message without a line break; a message that, followed by the newline
\* the log entry puts after it, holds no blank line.
SingleLine(m) == NL \notin Range(m)
BlankLineFree(m) ==
    \A i \in 1..Len(m) : m[i] = NL => (i < Len(m) /\ m[i + 1] # NL)

\* File contents.
Bytes == { <<"1">>, <<"2">> }

\* Commit messages: empty (or no -m flag), one line, two paragraphs.
OneLine == <<"m">>
TwoParagraphs == <<"m", "\n", "\n", "z">>
Msgs == { <<>>, OneLine, TwoParagraphs }

NoFile == [exists |-> FALSE, data |-> <<>>]
File(d) == [exists |-> TRUE, data |-> d]

-----------------------------------------------------------------------------
(* The line-oriented text store.                                           *)

\* bufio.ScanLines drops one trailing carriage return of a line
dropCR(d) == IF Len(d) > 0 /\ d[Len(d)] = CR THEN SubSeq(d, 1, Len(d) - 1) ELSE d

\* splitLines: bufio.Scanner over s with the default split function ScanLines;
\* the text after the last newline is a line only when it is not empty
RECURSIVE splitLines(_)
splitLines(s) ==
    IF s = <<>> THEN <<>>
    ELSE IF \E i \in 1..Len(s) : s[i] = NL
         THEN LET i == CHOOSE k \in 1..Len(s) :
                          s[k] = NL /\ \A j \in 1..(k - 1) : s[j] # NL
              IN  <<dropCR(SubSeq(s, 1, i - 1))>> \o splitLines(SubSeq(s, i + 1, Len(s)))
         ELSE <<dropCR(s)>>

WriteLinesNoNewline(staged) == Concat(staged)

\* for _, s := range staged { fmt.Fprintln(f, s) }
WriteLines(staged) == Concat([i \in 1..Len(staged) |-> staged[i] \o <<NL>>])

\* the lines of the index file as cmdAdd keeps them (line != "")
IndexLines(ix) ==
    IF ix.exists THEN SelectSeq(splitLines(ix.data), LAMBDA l : l # <<>>) ELSE <<>>

\* splitLogEntries: the loop over i, with start and entries, taken from one
\* blank line (s[i] == '\n' && s[i+1] == '\n') to the next; `from` is the
\* value of i the loop goes on with.  A slice s[start:i] with start > i is a
\* run-time panic: it happens when two matches overlap ("\n\n\n").
RECURSIVE SplitLogLoop(_, _, _, _)
SplitLogLoop(s, from, start, entries) ==
    LET matches == {i \in from..(Len(s) - 2) : s[i + 1] = NL /\ s[i + 2] = NL}
    IN  IF matches = {}
        THEN [panic |-> FALSE,
              entries |-> IF start < Len(s)
                          THEN Append(entries, Slice(s, start, Len(s)))
                          ELSE entries]
        ELSE LET i == CHOOSE k \in matches : \A j \in matches : k <= j
             IN  IF start > i
                 THEN [panic |-> TRUE, entries |-> entries]
                 ELSE SplitLogLoop(s, i + 1, i + 2, Append(entries, Slice(s, start, i)))

splitLogEntries(s) == SplitLogLoop(s, 0, 0, <<>>)

-----------------------------------------------------------------------------
(* Commit records.                                                         *)

Digits == <<"0", "1", "2", "3", "4", "5", "6", "7", "8", "9">>

\* time.Now().UTC().Format(time.RFC3339), the clock counting seconds of one minute
RFC3339(t) ==
    <<"2", "0", "2", "5", "-", "0", "1", "-", "0", "1", "T",
      "0", "0", ":", "0", "0", ":", Digits[(t \div 10) + 1], Digits[(t % 10) + 1], "Z">>

genCommitIDOfMessage(ts, msg) ==
    <<"c", "0", "f", "f", "e", "0", "0", Digits[(Len(msg) % 10) + 1]>>

\* genCommitID: the first 8 hex digits of SHA-1(ts + msg).  The digest is
\* represented by a function of ts + msg that is one-to-one on the texts of
\* the model: the seconds of ts and the length of msg.
genCommitID(ts, msg) ==
    LET text == ts \o msg
    IN  <<"c", "0", "f", "f", "e", text[18], text[19], Digits[(Len(text) % 10) + 1]>>

\* fmt's %v of a []string
FormatList(files) ==
    <<"[">> \o Concat([i \in 1..Len(files) |->
                          IF i = 1 THEN files[i] ELSE <<" ">> \o files[i]]) \o <<"]">>

\* "commit: %s\ndate: %s\nmessage: %s\nfiles: %v\n"
MetaText(id, ts, msg, files) ==
    <<"c", "o", "m", "m", "i", "t", ":", " ">> \o id \o <<NL>>
    \o <<"d", "a", "t", "e", ":", " ">> \o ts \o <<NL>>
    \o <<"m", "e", "s", "s", "a", "g", "e", ":", " ">> \o msg \o <<NL>>
    \o <<"f", "i", "l", "e", "s", ":", " ">> \o FormatList(files) \o <<NL>>

CommitPrefix == <<"c", "o", "m", "m", "i", "t", " ">>
FilesPrefix == <<"F", "i", "l", "e", "s", ":", " ">>

\* one block of the log, without the blank line that ends it
EntryBlock(id, ts, msg, files) ==
    CommitPrefix \o id \o <<NL>>
    \o <<"D", "a", "t", "e", ":", " ">> \o ts \o <<NL>>
    \o <<"M", "e", "s", "s", "a", "g", "e", ":", " ">> \o msg \o <<NL>>
    \o FilesPrefix \o FormatList(files)

LogEntryOneNewline(id, ts, msg, files) == EntryBlock(id, ts, msg, files) \o <<NL>>

\* "commit %s\nDate: %s\nMessage: %s\nFiles: %v\n\n"
LogEntry(id, ts, msg, files) == EntryBlock(id, ts, msg, files) \o <<NL, NL>>

-----------------------------------------------------------------------------
(* The repository state reader.                                            *)

\* the loop over the characters of line[7:] of a "Files: " line
RECURSIVE ParseFiles(_, _, _)
ParseFiles(rest, fname, files) ==
    IF rest = <<>>
    THEN IF fname # <<>> THEN files \cup {fname} ELSE files
    ELSE IF Head(rest) \notin {"[", "]", " ", ","}
         THEN ParseFiles(Tail(rest), Append(fname, Head(rest)), files)
         ELSE IF fname # <<>>
              THEN ParseFiles(Tail(rest), <<>>, files \cup {fname})
              ELSE ParseFiles(Tail(rest), fname, files)

\* the loop over the lines of the last entry
RECURSIVE ParseEntry(_, _, _)
ParseEntry(lines, files, id) ==
    IF lines = <<>> THEN [files |-> files, id |-> id]
    ELSE LET line == Head(lines)
             fs == IF Len(line) > 7 /\ Slice(line, 0, 7) = FilesPrefix
                   THEN ParseFiles(Slice(line, 7, Len(line)), <<>>, files)
                   ELSE files
             c == IF Len(line) > 7 /\ Slice(line, 0, 7) = CommitPrefix
                  THEN Slice(line, 7, Len(line))
                  ELSE id
         IN  ParseEntry(Tail(lines), fs, c)

getFirstCommitFilesAndID(lg) ==
    IF ~lg.exists \/ Len(lg.data) = 0
    THEN [panic |-> FALSE, files |-> {}, id |-> <<>>]
    ELSE LET r == splitLogEntries(lg.data)
         IN  IF r.panic THEN [panic |-> TRUE, files |-> {}, id |-> <<>>]
             ELSE IF Len(r.entries) = 0
                  THEN [panic |-> FALSE, files |-> {}, id |-> <<>>]
                  ELSE LET e == ParseEntry(splitLines(r.entries[1]), {}, <<>>)
                       IN  [panic |-> FALSE, files |-> e.files, id |-> e.id]

getLastCommitFilesAndID(lg) ==
    IF ~lg.exists \/ Len(lg.data) = 0
    THEN [panic |-> FALSE, files |-> {}, id |-> <<>>]
    ELSE LET r == splitLogEntries(lg.data)
         IN  IF r.panic THEN [panic |-> TRUE, files |-> {}, id |-> <<>>]
             ELSE IF Len(r.entries) = 0
                  THEN [panic |-> FALSE, files |-> {}, id |-> <<>>]
                  ELSE LET e == ParseEntry(splitLines(r.entries[Len(r.entries)]), {}, <<>>)
                       IN  [panic |-> FALSE, files |-> e.files, id |-> e.id]

-----------------------------------------------------------------------------
(* Invocations and their output.                                           *)

\* one printed message: its kind, and the path, count and commit id it names
Out(kind, path, n, id) == [kind |-> kind, path |-> path, n |-> n, id |-> id]
Msg(kind) == Out(kind, <<>>, 0, <<>>)

\* what one invocation did: the command line, the printed messages, the exit
\* status, and the sections status printed
Ran(cmd, args, msg, out, exit) ==
    [cmd |-> cmd, args |-> args, msg |-> msg, out |-> out, exit |-> exit,
     committedFiles |-> <<>>, staged |-> {}, untracked |-> <<>>, modified |-> {}]

Idle == Ran("none", <<>>, <<>>, <<>>, 0)


ensureRepoNever == TRUE

\* ensureRepo: without the marker directory, print the error and os.Exit(1)
ensureRepo == marker

\* the invocation that ensureRepo ends
NotARepo(cmd, args, msg) ==
    /\ last' = Ran(cmd, args, msg, <<Msg("NotARepository")>>, 1)
    /\ UNCHANGED <<marker, index, log, objects, wd, now, requested, history>>

NoRequests == [paths |-> <<>>, distinct |-> TRUE]

-----------------------------------------------------------------------------
(* help, version and the flags of the command line                         *)

DashH == <<"-", "h">>
DashDashHelp == <<"-", "-", "h", "e", "l", "p">>
DashM == <<"-", "m">>
DashX == <<"-", "x">>

\* main: len(args) > 0 && (args[0] == "--help" || args[0] == "-h")
HelpAsked(args) == Len(args) > 0 /\ args[1] \in {DashDashHelp, DashH}

\* the commands printCommandHelp knows; for another it prints the usage
HelpTopics ==
    { <<"i", "n", "i", "t">>, <<"a", "d", "d">>, <<"c", "o", "m", "m", "i", "t">>,
      <<"l", "o", "g">>, <<"s", "t", "a", "t", "u", "s">>,
      <<"v", "e", "r", "s", "i", "o", "n">> }

printCommandHelp(cmd, args) ==
    /\ last' = Ran(cmd, args, <<>>, <<Msg("CommandHelp")>>, 0)
    /\ UNCHANGED <<marker, index, log, objects, wd, now, requested, history>>

\* fool help [cmd]
cmdHelp(args) ==
    /\ last' = Ran("help", args, <<>>,
                   <<Msg(IF Len(args) > 0 /\ args[1] \in HelpTopics
                         THEN "CommandHelp" ELSE "Usage")>>, 0)
    /\ UNCHANGED <<marker, index, log, objects, wd, now, requested, history>>

cmdVersion ==
    /\ last' = Ran("version", <<>>, <<>>, <<Msg("Version")>>, 0)
    /\ UNCHANGED <<marker, index, log, objects, wd, now, requested, history>>

\* fool, fool --help, fool -h: the usage; fool <other>: "Unknown command" and
\* the usage
printUsage ==
    \E out \in { <<Msg("Usage")>>, <<Msg("UnknownCommand"), Msg("Usage")>> } :
        /\ last' = Ran("usage", <<>>, <<>>, out, 0)
        /\ UNCHANGED <<marker, index, log, objects, wd, now, requested, history>>

\* fool <cmd> --help, fool help, fool help <cmd>, fool version, fool
Inform ==
    \/ /\ \E cmd \in {"init", "log", "status"} : printCommandHelp(cmd, <<DashDashHelp>>)
       /\ UNCHANGED inflight
    \/ /\ \E args \in {<<>>, << <<"a", "d", "d">> >>, << <<"x">> >>} : cmdHelp(args)
       /\ UNCHANGED inflight
    \/ cmdVersion /\ UNCHANGED inflight
    \/ printUsage /\ UNCHANGED inflight

\* fs.Parse(args) of the flag set of commit, which has the one string flag m
\* and flag.ExitOnError: parsing stops at the first argument that is no flag;
\* a flag other than m, and m without a value, is an error.
RECURSIVE ParseFlags(_, _)
ParseFlags(args, msg) ==
    IF args = <<>> THEN [err |-> FALSE, msg |-> msg]
    ELSE LET a == Head(args) IN
         IF Len(a) < 2 \/ a[1] # "-" THEN [err |-> FALSE, msg |-> msg]
         ELSE IF a # DashM /\ a # <<"-">> \o DashM THEN [err |-> TRUE, msg |-> msg]
         ELSE IF Len(args) < 2 THEN [err |-> TRUE, msg |-> msg]
         ELSE ParseFlags(Tail(Tail(args)), args[2])

-----------------------------------------------------------------------------
(* init                                                                    *)

cmdInitAnew(mkdirFails) ==
    /\ marker' = TRUE
    /\ index' = NoFile
    /\ log' = NoFile
    /\ objects' = <<>>
    /\ requested' = NoRequests
    /\ last' = Ran("init", <<>>, <<>>, <<Msg("Initialized")>>, 0)
    /\ UNCHANGED <<wd, now, history>>

\* mkdirFails: os.Mkdir(".fool") fails
cmdInit(mkdirFails) ==
    IF marker
      THEN /\ last' = Ran("init", <<>>, <<>>, <<Msg("AlreadyInitialized")>>, 0)
           /\ UNCHANGED <<marker, index, log, objects, wd, now, requested, history>>
    ELSE IF mkdirFails
      THEN /\ last' = Ran("init", <<>>, <<>>, <<Msg("ErrorInit")>>, 1)
           /\ UNCHANGED <<marker, index, log, objects, wd, now, requested, history>>
      ELSE /\ marker' = TRUE
           /\ last' = Ran("init", <<>>, <<>>, <<Msg("Initialized")>>, 0)
           /\ UNCHANGED <<index, log, objects, wd, now, requested, history>>

Initialize(F) == \E mkdirFails \in F : cmdInit(mkdirFails) /\ UNCHANGED inflight

-----------------------------------------------------------------------------
(* add                                                                     *)

\* the paths an add invocation may name: file names and the empty path
AddPaths == StagingNames \cup {<<>>}

\* the argument lists of add: none, one path of P, or several distinct file
\* names of P
OnePath(P) == {<<p>> : p \in P}
SeveralPaths(P) == {args \in UNION {[1..n -> P] : n \in 2..MaxArgs} : NoDup(args)}
ArgLists == {<<>>} \cup OnePath(AddPaths) \cup SeveralPaths({<<"a">>, <<"b">>})

\* the path cmdAdd stages: file := args[0]
AddTarget(args) == args[1]

StatAlways(file) == TRUE

\* os.Stat(file) succeeds
StatOK(file) == file \in DOMAIN wd

AlreadyStagedWholeFile(file, ix) == ix.exists /\ ix.data = file

\* the loop over the lines of the index: TRUE when a line equals file
AlreadyStaged(file, ix) ==
    ix.exists /\ file \in Range(splitLines(ix.data))

AddedIndexOnlyNew(file, ix) == File(WriteLines(<<file>>))

\* staged = append(the non-empty lines, file), written with O_TRUNC
AddedIndex(file, ix) == File(WriteLines(Append(IndexLines(ix), file)))

\* history of the add requests for existing paths since the index was last empty
Request(args) ==
    LET file == AddTarget(args)
        seen == file \in Range(requested.paths)
    IN  [paths |-> IF seen THEN requested.paths ELSE Append(requested.paths, file),
         distinct |-> requested.distinct /\ ~seen /\ Len(args) = 1]

\* the index after the open with O_TRUNC and `written` calls of fmt.Fprintln
\* that wrote their line; the calls after them fail and cmdAdd ignores the
\* error that Fprintln returns
PartIndex(file, ix, written) ==
    File(WriteLines(SubSeq(Append(IndexLines(ix), file), 1, written)))

\* a number of written lines that means that no call of Fprintln failed
AllWritten == MaxLines

\* openFails: os.OpenFile of the index fails; written: how many of the calls
\* of fmt.Fprintln write their line
cmdAdd(args, openFails, written) ==
    /\ (Len(args) >= 1 /\ StatOK(AddTarget(args))
          /\ ~AlreadyStaged(AddTarget(args), index))
         => Len(IndexLines(index)) < MaxLines
    /\ IF ~ensureRepo
         THEN NotARepo("add", args, <<>>)
       ELSE IF Len(args) < 1
         THEN /\ last' = Ran("add", args, <<>>, <<Msg("Usage")>>, 0)
              /\ UNCHANGED <<marker, index, log, objects, wd, now, requested, history>>
       ELSE IF ~StatOK(AddTarget(args))
         THEN /\ last' = Ran("add", args, <<>>,
                             <<Out("NotFound", AddTarget(args), 0, <<>>)>>, 0)
              /\ UNCHANGED <<marker, index, log, objects, wd, now, requested, history>>
       ELSE IF AlreadyStaged(AddTarget(args), index)
         THEN /\ last' = Ran("add", args, <<>>,
                             <<Out("AlreadyStaged", AddTarget(args), 0, <<>>)>>, 0)
              /\ requested' = Request(args)
              /\ UNCHANGED <<marker, index, log, objects, wd, now, history>>
       ELSE IF openFails
         THEN /\ last' = Ran("add", args, <<>>, <<Msg("ErrorUpdatingIndex")>>, 0)
              /\ UNCHANGED <<marker, index, log, objects, wd, now, requested, history>>
         ELSE /\ index' = IF written > Len(IndexLines(index))
                           THEN AddedIndex(AddTarget(args), index)
                           ELSE PartIndex(AddTarget(args), index, written)
              /\ requested' = Request(args)
              /\ last' = Ran("add", args, <<>>,
                             <<Out("Added", AddTarget(args), 0, <<>>)>>, 0)
              /\ UNCHANGED <<marker, log, objects, wd, now, history>>

AddWriting(A, F, W) ==
    \E args \in A, openFails \in F, written \in W :
        /\ IF HelpAsked(args) THEN printCommandHelp("add", args)
                              ELSE cmdAdd(args, openFails, written)
        /\ UNCHANGED inflight

\* add where every write to the index succeeds
Add(A, F) == AddWriting(A, F, {AllWritten})

-----------------------------------------------------------------------------
(* commit                                                                  *)

\* f with x mapped to v
Put(f, x, v) == [y \in DOMAIN f \cup {x} |-> IF y = x THEN v ELSE f[y]]

RECURSIVE CopyLoopNoSkip(_, _, _, _, _)
CopyLoopNoSkip(files, snap, committedFiles, warnings, createFails) ==
    IF files = <<>>
    THEN [snap |-> snap, committedFiles |-> committedFiles, warnings |-> warnings]
    ELSE LET file == Head(files) IN
         IF file \notin DOMAIN wd
         THEN CopyLoopNoSkip(Tail(files), Put(snap, file, <<>>),
                             Append(committedFiles, file),
                             Append(warnings, Out("WarnOpen", file, 0, <<>>)), createFails)
         ELSE CopyLoopNoSkip(Tail(files), Put(snap, file, wd[file]),
                             Append(committedFiles, file), warnings, createFails)

RECURSIVE CopyLoopAbort(_, _, _, _, _)
CopyLoopAbort(files, snap, committedFiles, warnings, createFails) ==
    IF files = <<>>
    THEN [snap |-> snap, committedFiles |-> committedFiles, warnings |-> warnings]
    ELSE LET file == Head(files) IN
         IF file = <<>>
         THEN CopyLoopAbort(Tail(files), snap, committedFiles, warnings, createFails)
         ELSE IF file \notin DOMAIN wd
         THEN [snap |-> snap, committedFiles |-> committedFiles,
               warnings |-> Append(warnings, Out("WarnOpen", file, 0, <<>>))]
         ELSE IF file \in createFails
         THEN [snap |-> snap, committedFiles |-> committedFiles,
               warnings |-> Append(warnings, Out("WarnWrite", file, 0, <<>>))]
         ELSE CopyLoopAbort(Tail(files), Put(snap, file, wd[file]),
                            Append(committedFiles, file), warnings, createFails)

\* the loop over the staged files: os.Open fails for a file that is not in
\* the working directory, os.Create fails for the files of createFails; a
\* copied file is written to the snapshot and appended to committedFiles
RECURSIVE CopyLoop(_, _, _, _, _)
CopyLoop(files, snap, committedFiles, warnings, createFails) ==
    IF files = <<>>
    THEN [snap |-> snap, committedFiles |-> committedFiles, warnings |-> warnings]
    ELSE LET file == Head(files) IN
         IF file = <<>>
         THEN CopyLoop(Tail(files), snap, committedFiles, warnings, createFails)
         ELSE IF file \notin DOMAIN wd
         THEN CopyLoop(Tail(files), snap, committedFiles,
                       Append(warnings, Out("WarnOpen", file, 0, <<>>)), createFails)
         ELSE IF file \in createFails
         THEN CopyLoop(Tail(files), snap, committedFiles,
                       Append(warnings, Out("WarnWrite", file, 0, <<>>)), createFails)
         ELSE CopyLoop(Tail(files), Put(snap, file, wd[file]),
                       Append(committedFiles, file), warnings, createFails)

\* the steps of cmdCommit that may fail after the message and the index are read
CommitSteps == {"mkdir", "meta", "logopen", "logwrite", "indexclear"}

NoFault == [step |-> "none", create |-> {}]

CommitFaults == {NoFault}
    \cup {[step |-> st, create |-> {}] : st \in CommitSteps}
    \cup {[step |-> "none", create |-> c] : c \in (SUBSET {<<"a">>, <<"b">>}) \ {{}}}

MetaNotWritten(objs, commitID, snap, meta) == Put(objs, commitID, snap)

\* os.WriteFile(filepath.Join(commitDir, "meta.txt"), []byte(meta), 0644), after
\* the copies of the loop
WriteMeta(objs, commitID, snap, meta) ==
    Put(objs, commitID, Put(snap, MetaName, meta))

OverwriteLog(lg, entry) == File(entry)

\* os.OpenFile(".fool/log", O_APPEND|O_CREATE|O_WRONLY) and f.WriteString(logEntry)
AppendLog(lg, entry) == File(lg.data \o entry)

KeptIndex == index

\* index cleared: os.WriteFile(indexPath, []byte{}, 0644)
ClearedIndex == File(<<>>)

IndexAbsent(ix) == ~ix.exists

\* data, err := os.ReadFile(indexPath); err != nil || len(data) == 0
IndexEmpty(ix) == ~ix.exists \/ Len(ix.data) = 0

cmdCommit(args, fault, elapsed, most) ==
    LET flags == ParseFlags(args, <<>>)
        msg == flags.msg
        files == splitLines(index.data)
        commitTime == RFC3339(now + elapsed)
        commitID == genCommitID(commitTime, msg)
        dir == IF commitID \in DOMAIN objects THEN objects[commitID] ELSE <<>>
        c == CopyLoop(files, dir, <<>>, <<>>, fault.create)
        committedFiles == c.committedFiles
        copied == Put(objects, commitID, c.snap)
        meta == MetaText(commitID, commitTime, msg, committedFiles)
        withMeta == WriteMeta(objects, commitID, c.snap, meta)
        logEntry == LogEntry(commitID, commitTime, msg, committedFiles)
        record == [id |-> commitID, ts |-> commitTime, msg |-> msg,
                   files |-> committedFiles,
                   bytes |-> [f \in Range(committedFiles) |-> c.snap[f]]]
        done(out) == [Ran("commit", args, msg, Append(c.warnings, out), 0)
                         EXCEPT !.committedFiles = committedFiles]
    IN
    IF ~ensureRepo
      THEN NotARepo("commit", args, <<>>)
    ELSE IF flags.err
      THEN /\ last' = Ran("commit", args, <<>>, <<Msg("FlagError")>>, 2)
           /\ UNCHANGED <<marker, index, log, objects, wd, now, requested, history>>
    ELSE IF msg = <<>>
      THEN /\ last' = Ran("commit", args, msg, <<Msg("Usage")>>, 0)
           /\ UNCHANGED <<marker, index, log, objects, wd, now, requested, history>>
    ELSE IF IndexEmpty(index)
      THEN /\ last' = Ran("commit", args, msg, <<Msg("NothingToCommit")>>, 0)
           /\ UNCHANGED <<marker, index, log, objects, wd, now, requested, history>>
    ELSE IF fault.step = "mkdir"
      THEN /\ last' = Ran("commit", args, msg, <<Msg("ErrorCommitDir")>>, 0)
           /\ now' = now + elapsed
           /\ UNCHANGED <<marker, index, log, objects, wd, requested, history>>
    ELSE IF Len(committedFiles) = 0
      THEN /\ last' = done(Msg("NoFilesCommitted"))
           /\ objects' = copied
           /\ now' = now + elapsed
           /\ UNCHANGED <<marker, index, log, wd, requested, history>>
    ELSE IF fault.step = "meta"
      THEN /\ last' = done(Msg("ErrorMeta"))
           /\ objects' = copied
           /\ now' = now + elapsed
           /\ UNCHANGED <<marker, index, log, wd, requested, history>>
    ELSE IF fault.step = "logopen"
      THEN /\ last' = done(Msg("ErrorLogOpen"))
           /\ objects' = withMeta
           /\ now' = now + elapsed
           /\ UNCHANGED <<marker, index, log, wd, requested, history>>
    ELSE IF fault.step = "logwrite"
      THEN \* the log is opened (and created), the write fails with nothing written
           /\ last' = done(Msg("ErrorLogWrite"))
           /\ objects' = withMeta
           /\ log' = File(log.data)
           /\ now' = now + elapsed
           /\ UNCHANGED <<marker, index, wd, requested, history>>
    ELSE IF fault.step = "indexclear"
      THEN /\ Len(history) < most
           /\ last' = done(Msg("ErrorClearIndex"))
           /\ objects' = withMeta
           /\ log' = AppendLog(log, logEntry)
           /\ history' = Append(history, record)
           /\ now' = now + elapsed
           /\ UNCHANGED <<marker, index, wd, requested>>
      ELSE /\ Len(history) < most
           /\ objects' = withMeta
           /\ log' = AppendLog(log, logEntry)
           /\ history' = Append(history, record)
           /\ index' = ClearedIndex
           /\ requested' = NoRequests
           /\ last' = done(Out("Committed", <<>>, Len(committedFiles), commitID))
           /\ now' = now + elapsed
           /\ UNCHANGED <<marker, wd>>

\* elapsed: the seconds from the last reading of the clock to time.Now()
CommitArgs(A, F, E, most) ==
    \E args \in A, fault \in F, elapsed \in E :
        /\ now + elapsed <= MaxClock
        /\ IF HelpAsked(args)
             THEN printCommandHelp("commit", args)
             ELSE cmdCommit(args, fault, elapsed, most)
        /\ UNCHANGED inflight

\* commit -m msg, for the messages of M
Commit(M, F, E, most) == CommitArgs({<<DashM, msg>> : msg \in M}, F, E, most)

-----------------------------------------------------------------------------
(* log                                                                     *)

OldestFirst(entries) == SelectSeq(entries, LAMBDA e : e # <<>>)

\* the blocks cmdLog prints: the entries from the last to the first, skipping ""
Reversed(entries) ==
    SelectSeq([i \in 1..Len(entries) |-> entries[Len(entries) + 1 - i]],
              LAMBDA e : e # <<>>)

LogOutput(lg) ==
    IF ~lg.exists \/ Len(lg.data) = 0
    THEN [out |-> <<Msg("NoCommitsYet")>>, exit |-> 0]
    ELSE LET r == splitLogEntries(lg.data)
         IN  IF r.panic
             THEN [out |-> <<Msg("Panic")>>, exit |-> 2]
             ELSE [out |-> [i \in 1..Len(Reversed(r.entries)) |->
                               Out("Entry", Reversed(r.entries)[i], 0, <<>>)],
                   exit |-> 0]

cmdLogCreating ==
    /\ IF ~ensureRepo
         THEN NotARepo("log", <<>>, <<>>)
         ELSE /\ last' = Ran("log", <<>>, <<>>, LogOutput(log).out, LogOutput(log).exit)
              /\ log' = File(log.data)
              /\ UNCHANGED <<marker, index, objects, wd, now, requested, history>>
    /\ UNCHANGED inflight

cmdLog ==
    /\ IF ~ensureRepo
         THEN NotARepo("log", <<>>, <<>>)
         ELSE /\ last' = Ran("log", <<>>, <<>>, LogOutput(log).out, LogOutput(log).exit)
              /\ UNCHANGED <<marker, index, log, objects, wd, now, requested, history>>
    /\ UNCHANGED inflight

-----------------------------------------------------------------------------
(* status                                                                  *)

\* staged: the non-empty lines of a non-empty index
StagedSet(ix) ==
    IF ix.exists /\ Len(ix.data) > 0
    THEN {l \in Range(splitLines(ix.data)) : l # <<>>}
    ELSE {}

UntrackedAlsoStaged(staged, lastCommitFiles) ==
    SelectSeq(NameList,
              LAMBDA name : name \in DOMAIN wd /\ name \notin {DotFool, DotGit}
                            /\ name \notin lastCommitFiles)

\* untracked: the files of the project root, in the order of os.ReadDir, that
\* are not named .fool or .git and are neither staged nor in the last commit
Untracked(staged, lastCommitFiles) ==
    SelectSeq(NameList,
              LAMBDA name : name \in DOMAIN wd /\ name \notin {DotFool, DotGit}
                            /\ name \notin staged
                            /\ name \notin lastCommitFiles)

\* os.ReadFile(filepath.Join(".fool", "objects", lastCommitID, f)) succeeds
SnapshotReadable(id, f) == id \in DOMAIN objects /\ f \in DOMAIN objects[id]

ModifiedWhenSame(staged, lastCommitFiles, lastCommitID) ==
    {f \in lastCommitFiles :
        /\ f \notin staged
        /\ f \in DOMAIN wd
        /\ SnapshotReadable(lastCommitID, f)
        /\ wd[f] = objects[lastCommitID][f]}

ModifiedAlsoStaged(staged, lastCommitFiles, lastCommitID) ==
    {f \in lastCommitFiles :
        /\ f \in DOMAIN wd
        /\ SnapshotReadable(lastCommitID, f)
        /\ wd[f] # objects[lastCommitID][f]}

\* modified: in the last commit, not staged, both files readable, contents differ
Modified(staged, lastCommitFiles, lastCommitID) ==
    {f \in lastCommitFiles :
        /\ f \notin staged
        /\ f \in DOMAIN wd
        /\ SnapshotReadable(lastCommitID, f)
        /\ wd[f] # objects[lastCommitID][f]}

StatusOutput ==
    LET staged == StagedSet(index)
        head == getLastCommitFilesAndID(log)
        base == Ran("status", <<>>, <<>>,
                    <<Msg(IF staged # {} THEN "StagedFiles" ELSE "NoFilesStaged")>>, 0)
    IN  IF head.panic
        THEN [base EXCEPT !.staged = staged, !.exit = 2,
                          !.out = Append(base.out, Msg("Panic"))]
        ELSE [base EXCEPT !.staged = staged,
                          !.untracked = Untracked(staged, head.files),
                          !.modified = Modified(staged, head.files, head.id)]

cmdStatus ==
    /\ IF ~ensureRepo
         THEN NotARepo("status", <<>>, <<>>)
         ELSE /\ last' = StatusOutput
              /\ UNCHANGED <<marker, index, log, objects, wd, now, requested, history>>
    /\ UNCHANGED inflight

-----------------------------------------------------------------------------
(* Invocations that run at the same time.  There is no lock: an invocation  *)
(* is a process of its own, and between its read of the index and its      *)
(* writes another process may run.                                         *)

Procs == {1, 2}

NotRunning == [pc |-> "idle", path |-> <<>>, read |-> NoFile]

\* the kinds of overlap that start when p begins an invocation of kind cmd
Overlaps(p, cmd) ==
    reports.overlaps
        \cup { {cmd, running[q].pc} : q \in {r \in Procs \ {p} : running[r].pc # "idle"} }

\* cmdAdd up to and with os.ReadFile(indexPath) and the loop over its lines
AddRead(p, file) ==
    /\ running[p].pc = "idle"
    /\ IF ~ensureRepo
         THEN NotARepo("add", <<file>>, <<>>) /\ UNCHANGED inflight
       ELSE IF ~StatOK(file)
         THEN /\ last' = Ran("add", <<file>>, <<>>, <<Out("NotFound", file, 0, <<>>)>>, 0)
              /\ UNCHANGED <<marker, index, log, objects, wd, now, requested, history>>
              /\ UNCHANGED inflight
       ELSE IF AlreadyStaged(file, index)
         THEN /\ last' = Ran("add", <<file>>, <<>>,
                             <<Out("AlreadyStaged", file, 0, <<>>)>>, 0)
              /\ UNCHANGED <<marker, index, log, objects, wd, now, requested, history>>
              /\ UNCHANGED inflight
         ELSE /\ Len(IndexLines(index)) < MaxLines
              /\ running' = [running EXCEPT ![p] = [pc |-> "add", path |-> file,
                                                    read |-> index]]
              /\ reports' = [reports EXCEPT !.overlaps = Overlaps(p, "add")]
              /\ UNCHANGED <<marker, index, log, objects, wd, now, last, requested, history>>

\* cmdAdd from os.OpenFile with O_TRUNC to the message: the lines that were
\* read, and the file, are written
AddWrite(p) ==
    /\ running[p].pc = "add"
    /\ index' = AddedIndex(running[p].path, running[p].read)
    /\ last' = Ran("add", <<running[p].path>>, <<>>,
                   <<Out("Added", running[p].path, 0, <<>>)>>, 0)
    /\ running' = [running EXCEPT ![p] = NotRunning]
    /\ reports' = [reports EXCEPT !.added = @ \cup {running[p].path}]
    /\ UNCHANGED <<marker, log, objects, wd, now, requested, history>>

\* cmdCommit up to and with os.ReadFile(indexPath)
CommitRead(p, msg) ==
    /\ running[p].pc = "idle"
    /\ IF ~ensureRepo
         THEN NotARepo("commit", <<DashM, msg>>, <<>>) /\ UNCHANGED inflight
       ELSE IF IndexEmpty(index)
         THEN /\ last' = Ran("commit", <<DashM, msg>>, msg, <<Msg("NothingToCommit")>>, 0)
              /\ UNCHANGED <<marker, index, log, objects, wd, now, requested, history>>
              /\ UNCHANGED inflight
         ELSE /\ running' = [running EXCEPT ![p] = [pc |-> "commit", path |-> msg,
                                                    read |-> index]]
              /\ reports' = [reports EXCEPT !.overlaps = Overlaps(p, "commit")]
              /\ UNCHANGED <<marker, index, log, objects, wd, now, last, requested, history>>

\* cmdCommit from files := splitLines(string(data)) to the message: the copy
\* loop over the lines that were read, the metadata, the log entry, and the
\* index cleared
CommitWrite(p, most) ==
    LET msg == running[p].path
        files == splitLines(running[p].read.data)
        commitTime == RFC3339(now)
        commitID == genCommitID(commitTime, msg)
        dir == IF commitID \in DOMAIN objects THEN objects[commitID] ELSE <<>>
        c == CopyLoop(files, dir, <<>>, <<>>, {})
        meta == MetaText(commitID, commitTime, msg, c.committedFiles)
        ran(out) == [Ran("commit", <<DashM, msg>>, msg, Append(c.warnings, out), 0)
                        EXCEPT !.committedFiles = c.committedFiles]
    IN
    /\ running[p].pc = "commit"
    /\ running' = [running EXCEPT ![p] = NotRunning]
    /\ IF Len(c.committedFiles) = 0
         THEN /\ last' = ran(Msg("NoFilesCommitted"))
              /\ objects' = Put(objects, commitID, c.snap)
              /\ UNCHANGED <<marker, index, log, wd, now, requested, history, reports>>
         ELSE /\ Len(history) < most
              /\ objects' = WriteMeta(objects, commitID, c.snap, meta)
              /\ log' = AppendLog(log, LogEntry(commitID, commitTime, msg, c.committedFiles))
              /\ history' = Append(history,
                                   [id |-> commitID, ts |-> commitTime, msg |-> msg,
                                    files |-> c.committedFiles,
                                    bytes |-> [f \in Range(c.committedFiles) |-> c.snap[f]]])
              /\ index' = ClearedIndex
              /\ requested' = NoRequests
              /\ last' = ran(Out("Committed", <<>>, Len(c.committedFiles), commitID))
              /\ UNCHANGED <<marker, wd, now, reports>>


\* the user writes b to the file p
WriteFile(P, B) ==
    \E p \in P, b \in B :
        /\ IF p \in DOMAIN wd THEN wd[p] # b ELSE TRUE
        /\ wd' = Put(wd, p, b)
        /\ last' = Idle
        /\ UNCHANGED <<marker, index, log, objects, now, requested, history>>
        /\ UNCHANGED inflight

\* the user deletes a file
Remove ==
    \E p \in DOMAIN wd :
        /\ wd' = [q \in DOMAIN wd \ {p} |-> wd[q]]
        /\ last' = Idle
        /\ UNCHANGED <<marker, index, log, objects, now, requested, history>>
        /\ UNCHANGED inflight

-----------------------------------------------------------------------------
(* Specifications.                                                         *)

Init ==
    /\ marker = FALSE
    /\ index = NoFile
    /\ log = NoFile
    /\ objects = <<>>
    /\ wd = <<>>
    /\ now = 0
    /\ last = Idle
    /\ requested = NoRequests
    /\ history = <<>>
    /\ running = [p \in Procs |-> NotRunning]
    /\ reports = [added |-> {}, overlaps |-> {}]

\* Staging: every argument list of add, every message, one commit; every file
\* operation of the program succeeds.
Next ==
    \/ Initialize({FALSE})
    \/ Add(ArgLists, {FALSE})
    \/ Commit(Msgs, {NoFault}, {0}, MaxCommits)
    \/ cmdLog
    \/ cmdStatus
    \/ WriteFile(StagingNames, {<<"1">>})
    \/ Remove

Spec == Init /\ [][Next]_vars

\* Failing file operations: add and commit of the plain files, where opening
\* the index, creating .fool, the snapshot directory or a snapshot file, and writing
\* the metadata, the log or the index may fail.
PlainNames == { <<"a">>, <<"b">> }

NextIO ==
    \/ Initialize(BOOLEAN)
    \/ Add(OnePath(PlainNames), BOOLEAN)
    \/ Commit({OneLine}, CommitFaults, {0}, MaxCommits)
    \/ cmdStatus
    \/ WriteFile(PlainNames, {<<"1">>})
    \/ Remove

SpecIO == Init /\ [][NextIO]_vars

\* Failing writes of add: add of the plain files where the open of the index
\* may fail and where the writes to it may fail from any line on.
NextAdd ==
    \/ Initialize({FALSE})
    \/ AddWriting(OnePath(PlainNames), BOOLEAN, 0..MaxLines)
    \/ Commit({OneLine}, {NoFault}, {0}, MaxCommits)
    \/ WriteFile(PlainNames, {<<"1">>})
    \/ Remove

SpecAdd == Init /\ [][NextAdd]_vars

\* Invocations in flight together: two processes that add the plain files
\* and commit, each step of one possibly between the read and the write of
\* the other; no file is deleted and every file operation succeeds.
NextRace ==
    \/ Initialize({FALSE})
    \/ WriteFile(PlainNames, {<<"1">>})
    \/ \E p \in Procs, file \in PlainNames : AddRead(p, file)
    \/ \E p \in Procs : AddWrite(p)
    \/ \E p \in Procs : CommitRead(p, OneLine)
    \/ \E p \in Procs : CommitWrite(p, MaxLogCommits)

SpecRace == Init /\ [][NextRace]_vars

\* Status after a second commit: a plain file with two contents, a file whose
\* name holds a space and a file named .git, one-line messages within one
\* second; every file operation of the program succeeds.
TrackedNames == { DotGit, <<"a">>, <<"a", " ", "b">> }

NextTracked ==
    \/ Initialize({FALSE})
    \/ Add(OnePath(TrackedNames), {FALSE})
    \/ Commit({OneLine}, {NoFault}, {0}, MaxLogCommits)
    \/ cmdStatus
    \/ WriteFile({<<"a">>}, Bytes)
    \/ WriteFile(TrackedNames, {<<"1">>})

SpecTracked == Init /\ [][NextTracked]_vars

\* Status after commit: file names the log format cannot hold, two contents
\* per file, every message; every file operation of the program succeeds.
NextStatus ==
    \/ Initialize({FALSE})
    \/ Add(OnePath(StatusNames), {FALSE})
    \/ Commit(Msgs \ {<<>>}, {NoFault}, {0}, MaxCommits)
    \/ cmdStatus
    \/ WriteFile(StatusNames, Bytes)
    \/ Remove

SpecStatus == Init /\ [][NextStatus]_vars

\* The log read back: commits, seconds apart or within the same second, of
\* a plain file and of a file whose name holds a newline, every message;
\* every file operation of the program succeeds.
LogNames == { <<"a">>, <<"a", "\n", "b">> }

NextLog ==
    \/ Initialize({FALSE})
    \/ Add(OnePath(LogNames), {FALSE})
    \/ Commit(Msgs \ {<<>>}, {NoFault}, 0..MaxClock, MaxLogCommits)
    \/ cmdLog
    \/ WriteFile(LogNames, {<<"1">>})
    \/ Remove

SpecLog == Init /\ [][NextLog]_vars

\* The sections of status: a file named .git, a file whose name holds a
\* newline and one whose name holds a space, two contents of the file a, one-line
\* messages; every file operation of the program succeeds.
SectionNames == { DotGit, <<"a">>, <<"a", "\n", "b">>, <<"a", " ", "b">> }

NextSections ==
    \/ Initialize({FALSE})
    \/ Add(OnePath(SectionNames), {FALSE})
    \/ Commit({OneLine}, {NoFault}, {0}, MaxCommits)
    \/ cmdStatus
    \/ WriteFile({<<"a">>}, Bytes)
    \/ WriteFile(SectionNames, {<<"1">>})
    \/ Remove

SpecSections == Init /\ [][NextSections]_vars

\* Snapshots: commits, seconds apart or within the same second, of the file a
\* with two contents and of a file named as the metadata file of a snapshot;
\* the log may fail to open after the snapshot and its metadata are written.
SnapshotNames == { <<"a">>, MetaName }
SnapshotFaults == { NoFault, [step |-> "logopen", create |-> {}] }

NextSnapshot ==
    \/ Initialize({FALSE})
    \/ Add(OnePath(SnapshotNames), {FALSE})
    \/ Commit({OneLine}, SnapshotFaults, 0..MaxClock, MaxLogCommits)
    \/ WriteFile({<<"a">>}, Bytes)
    \/ WriteFile({MetaName}, {<<"1">>})

SpecSnapshot == Init /\ [][NextSnapshot]_vars

\* Exit status: every command, the command lines of commit with and without
\* its flag, the help flags, a message that ends in a blank line, and failing
\* file operations.
BlankLineLast == <<"m", "\n", "\n">>

CommitLines ==
    { <<>>, <<DashM>>, <<DashX>>, <<DashDashHelp>>,
      <<DashM, <<>>>>, <<DashM, OneLine>>, <<DashM, BlankLineLast>> }

NextExit ==
    \/ Initialize(BOOLEAN)
    \/ Add({<<>>, << <<"a">> >>, <<DashH>>}, BOOLEAN)
    \/ CommitArgs(CommitLines, CommitFaults, {0}, MaxCommits)
    \/ cmdLog
    \/ cmdStatus
    \/ Inform
    \/ WriteFile({<<"a">>}, {<<"1">>})
    \/ Remove

SpecExit == Init /\ [][NextExit]_vars

-----------------------------------------------------------------------------
(* Properties.  A property of one invocation is an action property: the    *)
(* unprimed variables are the state the command finds, last' is what it    *)
(* did.                                                                    *)

PrintedIn(l, kind) == \E i \in 1..Len(l.out) : l.out[i].kind = kind

\* the step is an add invocation, in a repository, that names a path
AddOf(l) == l.cmd = "add" /\ marker /\ Len(l.args) >= 1

\* the step is a commit invocation, in a repository, with a message
CommitOf(l) == l.cmd = "commit" /\ marker /\ l.msg # <<>>

\* C1 as stated: add of any path that is a line of the index reports
\* AlreadyStaged and leaves the index file as it was.
C1_Original ==
    [][ (AddOf(last') /\ last'.args[1] \in Range(IndexLines(index)))
        => /\ last'.out = <<Out("AlreadyStaged", last'.args[1], 0, <<>>)>>
           /\ index' = index ]_vars

\* C1 amended: add of a path that is a line of the index and still exists on
\* disk reports AlreadyStaged and leaves the index file as it was.
C1_AddIdempotent ==
    [][ (/\ AddOf(last')
         /\ last'.args[1] \in Range(IndexLines(index))
         /\ last'.args[1] \in DOMAIN wd)
        => /\ last'.out = <<Out("AlreadyStaged", last'.args[1], 0, <<>>)>>
           /\ index' = index ]_vars

C1_Witness ==
    /\ last.cmd = "add"
    /\ PrintedIn(last, "AlreadyStaged")
    /\ Len(IndexLines(index)) = 2
    /\ last.args[1] = IndexLines(index)[2]

\* the index lists exactly the requested paths, each once
ListsExactly(paths) ==
    /\ Range(IndexLines(index)) = Range(paths)
    /\ Len(IndexLines(index)) = Len(paths)

\* C2 as stated: after adds of distinct existing paths, one per invocation,
\* to an empty index, in any order, the index lists exactly those paths, each
\* once.
C2_Original == requested.distinct => ListsExactly(requested.paths)

\* C2 amended: the same for paths that hold no newline and do not end in a
\* carriage return.
C2_DistinctAdds ==
    (requested.distinct /\ \A p \in Range(requested.paths) : Plain(p))
        => ListsExactly(requested.paths)

C2_Witness ==
    /\ requested.distinct
    /\ requested.paths = << <<"b">>, <<"a">> >>
    /\ last.cmd = "add"
    /\ PrintedIn(last, "Added")

\* C3: one add invocation with several distinct existing paths reports the
\* status of each path, in the order given, and stages every one of them.
C3_Claim ==
    (/\ last.cmd = "add" /\ last.exit = 0
     /\ Len(last.args) >= 2 /\ NoDup(last.args)
     /\ \A i \in 1..Len(last.args) : last.args[i] \in DOMAIN wd)
        => /\ Len(last.out) = Len(last.args)
           /\ \A i \in 1..Len(last.args) :
                 /\ last.out[i].kind \in {"Added", "AlreadyStaged"}
                 /\ last.out[i].path = last.args[i]
                 /\ last.args[i] \in Range(IndexLines(index))

\* the lines of the index file are not empty, are distinct, and are the paths
\* added since the index was last cleared, in the order they were first added
ListsInOrder(paths) ==
    LET lines == IF index.exists THEN splitLines(index.data) ELSE <<>>
    IN  /\ \A i \in 1..Len(lines) : lines[i] # <<>>
        /\ NoDup(lines)
        /\ lines = paths

\* C4 as stated: in every state the index file is absent, empty, or lists only
\* non-empty paths, each once, in the order they were first added since the
\* index was last cleared.
C4_Original ==
    \/ ~index.exists
    \/ index.data = <<>>
    \/ ListsInOrder(requested.paths)

\* C4 amended: the same while the paths added hold no newline and do not end
\* in a carriage return (an absent or empty index then lists no path).
C4_IndexInvariant ==
    (\A p \in Range(requested.paths) : Plain(p)) => ListsInOrder(requested.paths)

C4_Witness ==
    /\ history # <<>>
    /\ Len(requested.paths) = 2
    /\ \A p \in Range(requested.paths) : Plain(p)
    /\ ~requested.distinct

\* C5: add of a path that does not exist reports NotFound and leaves the
\* index, the log and the objects tree as they were.
C5_AddNotFound ==
    [][ (AddOf(last') /\ last'.args[1] \notin DOMAIN wd)
        => /\ last'.out = <<Out("NotFound", last'.args[1], 0, <<>>)>>
           /\ index' = index
           /\ log' = log
           /\ objects' = objects ]_vars

C5_Witness ==
    /\ last.cmd = "add"
    /\ PrintedIn(last, "NotFound")
    /\ last.args[1] \in Range(IndexLines(index))

\* the commit step empties an index that listed something
ClearedByCommit == index.exists /\ index.data # <<>> /\ index' = File(<<>>)

WriteFailed(l) ==
    \E k \in {"ErrorMeta", "ErrorLogOpen", "ErrorLogWrite", "ErrorClearIndex"} :
        PrintedIn(l, k)

\* C6 as stated: a commit with a message clears the index iff it copied at
\* least one staged file, also when a later metadata, log or index write fails.
C6_Original ==
    [][ CommitOf(last')
        => (ClearedByCommit <=> Len(last'.committedFiles) >= 1) ]_vars

\* C6 amended: a commit with a message clears the index iff it copied at least
\* one staged file and the metadata write, the log append and the index write
\* all succeeded.
C6_ClearIffCommitted ==
    [][ CommitOf(last')
        => (ClearedByCommit
              <=> (Len(last'.committedFiles) >= 1 /\ ~WriteFailed(last'))) ]_vars

C6_Witness ==
    /\ last.cmd = "commit"
    /\ PrintedIn(last, "Committed")
    /\ PrintedIn(last, "WarnWrite")
    /\ index = File(<<>>)

\* C7: commit with an absent or empty index reports NothingToCommit and writes
\* nothing: the log, the objects tree and the index are as they were.
C7_EmptyIndex ==
    [][ (CommitOf(last') /\ (~index.exists \/ index.data = <<>>))
        => /\ last'.out = <<Msg("NothingToCommit")>>
           /\ log' = log
           /\ objects' = objects
           /\ index' = index ]_vars

C7_Witness ==
    /\ last.cmd = "commit"
    /\ PrintedIn(last, "NothingToCommit")
    /\ index = File(<<>>)
    /\ history # <<>>

\* no meta.txt is written: every meta.txt of the objects tree was there
\* before, with the same bytes
NoMetaWritten ==
    \A id \in DOMAIN objects' :
        MetaName \in DOMAIN objects'[id]
            => /\ id \in DOMAIN objects
               /\ MetaName \in DOMAIN objects[id]
               /\ objects'[id][MetaName] = objects[id][MetaName]

\* the commit warned that it skips f
Skipped(l, f) ==
    \E i \in 1..Len(l.out) :
        l.out[i].kind \in {"WarnOpen", "WarnWrite"} /\ l.out[i].path = f

\* C8: commit of a non-empty index of which every path fails to copy reports
\* NoFilesCommitted, writes no meta.txt, and leaves the log and the index as
\* they were.
C8_NoFilesCommitted ==
    [][ (/\ CommitOf(last')
         /\ index.exists /\ index.data # <<>>
         /\ \A f \in Range(IndexLines(index)) : Skipped(last', f))
        => /\ PrintedIn(last', "NoFilesCommitted")
           /\ NoMetaWritten
           /\ log' = log
           /\ index' = index ]_vars

C8_Witness ==
    /\ last.cmd = "commit"
    /\ PrintedIn(last, "NoFilesCommitted")
    /\ PrintedIn(last, "WarnOpen")
    /\ PrintedIn(last, "WarnWrite")
    /\ Len(IndexLines(index)) = 2

\* the commit step reports n files and an id, empties the index, and extends
\* the entries of the log by one block with that id, the message and the paths
CommittedAll(paths) ==
    /\ Len(last'.out) = 1
    /\ last'.out[1].kind = "Committed"
    /\ last'.out[1].n = Len(paths)
    /\ index' = File(<<>>)
    /\ ~splitLogEntries(log'.data).panic
    /\ splitLogEntries(log'.data).entries =
          Append(splitLogEntries(log.data).entries,
                 EntryBlock(last'.out[1].id, RFC3339(now'), last'.msg, paths))

\* the commit step finds added paths, all of them files that exist
AllReadable == requested.paths # <<>> /\ \A p \in Range(requested.paths) : p \in DOMAIN wd

\* C9 as stated: commit -m M after adds of existing files, all readable,
\* reports as many files as paths were staged and the id, empties the index,
\* and extends the log by exactly one entry, with message M and that id.
C9_Original ==
    [][ (CommitOf(last') /\ AllReadable) => CommittedAll(requested.paths) ]_vars

\* C9 amended: the same when M holds no blank line and does not end in a
\* newline, and the staged paths hold no newline and do not end in a carriage
\* return.
C9_CommitAll ==
    [][ (/\ CommitOf(last') /\ AllReadable
         /\ BlankLineFree(last'.msg)
         /\ \A p \in Range(requested.paths) : Plain(p))
        => CommittedAll(requested.paths) ]_vars

C9_Witness ==
    /\ last.cmd = "commit"
    /\ last.msg = OneLine
    /\ PrintedIn(last, "Committed")
    /\ last.committedFiles = << <<"a">> >>
    /\ Len(history) = 2
    /\ Len(splitLogEntries(log.data).entries) = 2
    /\ now = 1

\* status lists f in no section
Unlisted(f) ==
    /\ f \notin last'.staged
    /\ f \notin Range(last'.untracked)
    /\ f \notin last'.modified

\* the step is the status invocation that follows a commit that committed
StatusAfterCommit ==
    /\ last.cmd = "commit"
    /\ PrintedIn(last, "Committed")
    /\ last'.cmd = "status"

\* f is on disk with bytes other than the bytes committed, and is not re-added
Edited(head, f) ==
    /\ f \notin Range(requested.paths)
    /\ f \in DOMAIN wd
    /\ wd[f] # head.bytes[f]

\* C10 as stated: status right after commit -m X lists a committed file f in
\* none of Staged, Untracked and Modified; once f's bytes on disk differ from
\* the bytes committed, and f is not re-added, status lists f under Modified.
C10_Original ==
    [][ /\ StatusAfterCommit
            => \A f \in Range(last.committedFiles) : Unlisted(f)
        /\ (last'.cmd = "status" /\ history # <<>>)
            => LET head == history[Len(history)]
               IN  \A f \in Range(head.files) :
                      Edited(head, f) => f \in last'.modified ]_vars

\* C10 amended: the same for a message X of one line and a file f whose name
\* holds none of ",", "[", "]", space and newline, does not end in a carriage
\* return, and is not meta.txt.
C10_RoundTrip ==
    [][ /\ (StatusAfterCommit /\ SingleLine(last.msg))
            => \A f \in Range(last.committedFiles) : LogSafe(f) => Unlisted(f)
        /\ (last'.cmd = "status" /\ history # <<>>)
            => LET head == history[Len(history)]
               IN  \A f \in Range(head.files) :
                      (SingleLine(head.msg) /\ LogSafe(f) /\ Edited(head, f))
                          => f \in last'.modified ]_vars

C10_Witness ==
    /\ last.cmd = "status"
    /\ history # <<>>
    /\ history[Len(history)].msg = OneLine
    /\ history[Len(history)].files = << <<"a">> >>
    /\ last.modified = { <<"a">> }
    /\ wd[<<"a">>] # history[Len(history)].bytes[<<"a">>]

\* the step is a status invocation in a repository
StatusOf(l) == l.cmd = "status" /\ marker

\* the files of the most recent commit
LastCommitted == IF history = <<>> THEN {} ELSE Range(history[Len(history)].files)

\* no path is in two sections of the status output
SectionsDisjoint(l) ==
    /\ l.staged \cap Range(l.untracked) = {}
    /\ l.staged \cap l.modified = {}
    /\ Range(l.untracked) \cap l.modified = {}

\* the log holds one-line messages, and the most recent commit holds no file
\* name with a delimiter of the "Files: [...]" line
LogReadsBack ==
    /\ \A i \in 1..Len(history) : SingleLine(history[i].msg)
    /\ \A f \in LastCommitted : Range(f) \cap {"[", "]", " ", ","} = {}

\* C11 as stated: status lists every staged file under Staged and every
\* root-level file that is neither staged nor in the last commit under
\* Untracked, and no path is in more than one of Staged, Untracked, Modified.
C11_Original ==
    [][ StatusOf(last')
        => /\ \A f \in Range(requested.paths) : f \in last'.staged
           /\ \A f \in DOMAIN wd :
                 (f \notin Range(requested.paths) /\ f \notin LastCommitted)
                     => f \in Range(last'.untracked)
           /\ SectionsDisjoint(last') ]_vars

\* C11 amended: status lists every staged file whose path holds no newline
\* (and does not end in a carriage return) under Staged; when all staged paths
\* are such, all commit messages are one line and the last commit's file
\* names hold none of ",", "[", "]" and space, it lists every root-level file
\* other than .git that is neither staged nor in the last commit under
\* Untracked; and no path is in more than one section.
C11_Sections ==
    [][ StatusOf(last')
        => /\ \A f \in Range(requested.paths) : Plain(f) => f \in last'.staged
           /\ ((\A p \in Range(requested.paths) : Plain(p)) /\ LogReadsBack)
                 => \A f \in DOMAIN wd \ {DotGit} :
                       (f \notin Range(requested.paths) /\ f \notin LastCommitted)
                           => f \in Range(last'.untracked)
           /\ SectionsDisjoint(last') ]_vars

C11_Witness ==
    /\ last.cmd = "status"
    /\ last.staged = { <<"a", " ", "b">> }
    /\ last.untracked = << <<"a", "\n", "b">> >>
    /\ last.modified = { <<"a">> }
    /\ DotGit \in DOMAIN wd

\* C12: init without the marker, when creating the directory does not fail,
\* creates the marker and reports Initialized; init with the marker reports
\* AlreadyInitialized and leaves the marker, the index, the log and the
\* objects tree as they were.
C12_InitIdempotent ==
    [][ last'.cmd = "init"
        => /\ (~marker /\ ~PrintedIn(last', "ErrorInit"))
                => (marker' /\ last'.out = <<Msg("Initialized")>>)
           /\ marker
                => /\ last'.out = <<Msg("AlreadyInitialized")>>
                   /\ last'.exit = 0
                   /\ marker' /\ index' = index /\ log' = log /\ objects' = objects ]_vars

C12_Witness ==
    /\ last.cmd = "init"
    /\ PrintedIn(last, "AlreadyInitialized")
    /\ history # <<>>
    /\ Len(IndexLines(index)) = 2

\* the step is an invocation of a command that needs a repository, and not
\* a request for the help of that command
GuardedRun(l) ==
    /\ l.cmd \in {"add", "commit", "log", "status"}
    /\ ~HelpAsked(l.args)

\* C13: add, commit, log and status without the marker print the error, end
\* with a non-zero status and create or change nothing; init, help and
\* version run without the marker.
C13_Guard ==
    [][ ~marker
        => /\ GuardedRun(last')
              => /\ last'.out = <<Msg("NotARepository")>>
                 /\ last'.exit # 0
                 /\ UNCHANGED <<marker, index, log, objects>>
           /\ last'.cmd \in {"init", "help", "version"}
              => /\ ~PrintedIn(last', "NotARepository")
                 /\ (last'.exit = 0 \/ PrintedIn(last', "ErrorInit")) ]_vars

C13_Witness ==
    /\ last.cmd = "commit"
    /\ last.args = <<DashM, OneLine>>
    /\ last.out = <<Msg("NotARepository")>>
    /\ last.exit = 1
    /\ ~marker
    /\ DOMAIN wd # {}

\* C14: an invocation ends with a failure status only when it reports that
\* there is no repository or that init could not create the directory; every
\* other error is printed and the invocation ends with status 0.
C14_Claim ==
    last.exit # 0
        => \/ last.out = <<Msg("NotARepository")>>
           \/ (last.cmd = "init" /\ last.out = <<Msg("ErrorInit")>>)

\* the commit ids the log names: the text after "commit " of each such line
LoggedIDs(lg) ==
    LET lines == splitLines(lg.data)
    IN  { Slice(lines[i], 7, Len(lines[i])) :
            i \in { k \in 1..Len(lines) :
                      Len(lines[k]) > 7 /\ Slice(lines[k], 0, 7) = CommitPrefix } }

\* C15: in every state, also after a reported failure of any step of commit,
\* every commit id that the log names has a snapshot directory that holds a
\* meta.txt written for that id.
C15_LoggedHasMeta ==
    \A id \in LoggedIDs(log) :
        /\ id \in DOMAIN objects
        /\ MetaName \in DOMAIN objects[id]
        /\ LET head == <<"c", "o", "m", "m", "i", "t", ":", " ">> \o id \o <<NL>>
               meta == objects[id][MetaName]
           IN  Len(meta) >= Len(head) /\ SubSeq(meta, 1, Len(head)) = head

\* the log append succeeded and the index write after it failed
C15_Witness ==
    /\ last.cmd = "commit"
    /\ PrintedIn(last, "ErrorClearIndex")
    /\ LoggedIDs(log) # {}
    /\ index.data # <<>>
    /\ \A id \in LoggedIDs(log) :
          id \in DOMAIN objects /\ MetaName \in DOMAIN objects[id]

\* the invocation is log, in a repository
LogOf(l) == l.cmd = "log" /\ l.out # <<Msg("NotARepository")>>

\* log prints one block per commit made, the newest first, each the record
\* that commit appended (without the blank line that ends it); with no commit
\* it prints NoCommitsYet
PrintsHistory(l) ==
    IF history = <<>>
    THEN l.out = <<Msg("NoCommitsYet")>>
    ELSE l.out = [i \in 1..Len(history) |->
                    LET h == history[Len(history) + 1 - i]
                    IN  Out("Entry", EntryBlock(h.id, h.ts, h.msg, h.files), 0, <<>>)]

\* C16 as stated: after n successful commits with any non-empty messages, log
\* prints exactly n blocks, one per commit, the newest first, each the text
\* appended for that commit; with no commits it prints that there are none.
C16_Original == LogOf(last) => PrintsHistory(last)

\* C16 amended: the same when no message holds a blank line or ends in a
\* newline.
C16_LogNewestFirst ==
    (LogOf(last) /\ \A h \in Range(history) : BlankLineFree(h.msg))
        => PrintsHistory(last)

C16_Witness ==
    /\ LogOf(last)
    /\ Len(history) = 2
    /\ \A h \in Range(history) : BlankLineFree(h.msg)
    /\ Len(last.out) = 2
    /\ last.out[1] # last.out[2]
    /\ last.out[1].path = EntryBlock(history[2].id, history[2].ts,
                                      history[2].msg, history[2].files)

\* the staged paths that the commit did not warn about, in index order
NotSkipped(l, staged) == SelectSeq(staged, LAMBDA f : ~Skipped(l, f))

\* no step of the commit other than a copy reported a failure
OnlyCopiesFailed(l) == ~WriteFailed(l) /\ ~PrintedIn(l, "ErrorCommitDir")

\* C17: a commit of staged paths S of which some, not all, fail to copy goes
\* on: every other path of S is in the snapshot with the bytes of the working
\* file, meta.txt and the log entry list exactly those paths in index order,
\* and the reported count is their number.
C17_SkipAndGoOn ==
    [][ LET S == IndexLines(index)
            kept == NotSkipped(last', S)
            id == last'.out[Len(last'.out)].id
            ts == RFC3339(now')
        IN  (/\ CommitOf(last')
             /\ OnlyCopiesFailed(last')
             /\ kept # <<>>)
            => /\ last'.out[Len(last'.out)] = Out("Committed", <<>>, Len(kept), id)
               /\ id \in DOMAIN objects'
               /\ \A f \in Range(kept) :
                     f \in DOMAIN objects'[id] /\ objects'[id][f] = wd[f]
               /\ objects'[id][MetaName] = MetaText(id, ts, last'.msg, kept)
               /\ log'.data = log.data \o LogEntry(id, ts, last'.msg, kept) ]_vars

\* of two staged files the first was skipped and the second committed
C17_Witness ==
    /\ last.cmd = "commit"
    /\ Len(last.out) = 2
    /\ last.out[1] = Out("WarnWrite", <<"a">>, 0, <<>>)
    /\ last.out[2].kind = "Committed" /\ last.out[2].n = 1
    /\ last.committedFiles = << <<"b">> >>
    /\ Len(history) = 1 /\ history[1].files = << <<"b">> >>

\* a file name without a delimiter of the "Files: [...]" line
ListSafe(p) == Range(p) \cap {"[", "]", " ", ","} = {}

\* every commit made so far has file names without a delimiter
ListSafeHistory == \A h \in Range(history) : \A f \in Range(h.files) : ListSafe(f)

\* the reader gives the id and the file set of the most recent commit, and
\* the empty set and the empty id when there is none
ReadsLastCommit ==
    LET r == getLastCommitFilesAndID(log)
    IN  /\ ~r.panic
        /\ IF history = <<>>
           THEN r.files = {} /\ r.id = <<>>
           ELSE r.files = LastCommitted /\ r.id = history[Len(history)].id

\* C18 as stated: after successful commits with non-empty messages and file
\* names free of ',', '[', ']' and space, the reader returns the id of the most
\* recent commit and exactly its file set; without a log or with an empty log
\* it returns the empty set and the empty id.
C18_Original == ListSafeHistory => ReadsLastCommit

\* C18 amended: the same when every message is a single line.
C18_Reader ==
    (ListSafeHistory /\ \A h \in Range(history) : SingleLine(h.msg))
        => ReadsLastCommit

\* two commits of different files, the reader gives the second
C18_Witness ==
    /\ Len(history) = 2
    /\ \A h \in Range(history) : SingleLine(h.msg)
    /\ history[1].files # history[2].files
    /\ history[1].id # history[2].id
    /\ getLastCommitFilesAndID(log).id = history[2].id
    /\ getLastCommitFilesAndID(log).files = Range(history[2].files)

\* the snapshot of the commit record h in the objects tree objs: meta.txt
\* carries the fields of the record
MetaMirrors(h, objs) ==
    /\ h.id \in DOMAIN objs
    /\ MetaName \in DOMAIN objs[h.id]
    /\ objs[h.id][MetaName] = MetaText(h.id, h.ts, h.msg, h.files)

\* every path of P of the record is in the snapshot with the bytes the
\* working file had when the commit ran
HoldsBytes(h, objs, P) ==
    /\ h.id \in DOMAIN objs
    /\ \A f \in Range(h.files) \cap P :
          f \in DOMAIN objs[h.id] /\ objs[h.id][f] = h.bytes[f]

AnyPath == UNION { Range(h.files) : h \in Range(history) }

\* the log is the records of the commits made, in order
LogIsHistory ==
    log.data = Concat([i \in 1..Len(history) |->
                          LogEntry(history[i].id, history[i].ts,
                                   history[i].msg, history[i].files)])

\* C19 as stated: in every state, for every commit record of the log, meta.txt
\* of its snapshot carries the id, timestamp, message and file list of the
\* record and every path of the record is in the snapshot with the bytes the
\* working file had when the commit ran; no later operation changes it.
C19_Original ==
    /\ LogIsHistory
    /\ \A h \in Range(history) :
          MetaMirrors(h, objects) /\ HoldsBytes(h, objects, AnyPath)

\* the step is a commit that reaches the snapshot directory of the record h:
\* the same timestamp and the same message
Recommits(h) ==
    /\ last'.cmd = "commit"
    /\ last'.msg = h.msg
    /\ RFC3339(now') = h.ts

\* C19 amended: a commit that appends a record leaves meta.txt with the fields
\* of the record and every path of the record other than meta.txt in the
\* snapshot with the bytes of the working file; and no later step changes that,
\* except a commit with the same timestamp and message.
C19_Snapshots ==
    [][ /\ Len(history') = Len(history) + 1
          => LET h == history'[Len(history')]
             IN  /\ log'.data = log.data \o LogEntry(h.id, h.ts, h.msg, h.files)
                 /\ MetaMirrors(h, objects')
                 /\ HoldsBytes(h, objects', AnyPath' \ {MetaName})
                 /\ \A f \in Range(h.files) : f \in DOMAIN wd /\ h.bytes[f] = wd[f]
        /\ \A i \in 1..Len(history) :
              LET h == history[i]
              IN  ~Recommits(h)
                  => /\ history'[i] = h
                     /\ MetaMirrors(h, objects) => MetaMirrors(h, objects')
                     /\ HoldsBytes(h, objects, AnyPath \ {MetaName})
                          => HoldsBytes(h, objects', AnyPath \ {MetaName}) ]_vars

\* a second commit, a second later, of the file a with new contents; the
\* snapshot of the first still holds the old contents
C19_Witness ==
    /\ Len(history) = 2
    /\ history[1].id # history[2].id
    /\ history[1].files = << <<"a">> >>
    /\ history[2].files = << <<"a">> >>
    /\ history[1].bytes[<<"a">>] # history[2].bytes[<<"a">>]
    /\ objects[history[1].id][<<"a">>] = history[1].bytes[<<"a">>]
    /\ objects[history[2].id][<<"a">>] = history[2].bytes[<<"a">>]
    /\ MetaMirrors(history[1], objects)

\* s is the beginning of t
IsPrefix(s, t) == Len(s) <= Len(t) /\ SubSeq(t, 1, Len(s)) = s

\* C20: the log is append-only: in every step the log text before is the
\* beginning of the log text after; a step that changes the text is a commit
\* that copied at least one file, and what it adds, at the end, is the one
\* record of that commit.
C20_AppendOnly ==
    [][ /\ IsPrefix(log.data, log'.data)
        /\ log'.data # log.data
             => /\ last'.cmd = "commit"
                /\ Len(last'.committedFiles) >= 1
                /\ log'.data = log.data \o
                       LogEntry(genCommitID(RFC3339(now'), last'.msg), RFC3339(now'),
                                last'.msg, last'.committedFiles) ]_vars

\* a second record was put after the first
C20_Witness ==
    /\ last.cmd = "commit"
    /\ PrintedIn(last, "Committed")
    /\ Len(history) = 2
    /\ log.data = LogEntry(history[1].id, history[1].ts, history[1].msg, history[1].files)
                   \o LogEntry(history[2].id, history[2].ts, history[2].msg, history[2].files)

\* C21: add of an existing path p that is not staged either leaves the index
\* as it was and reports an error, or leaves the previous entries followed by
\* p and reports Added, also when the open of or a write to the index fails.
C21_Claim ==
    [][ (/\ AddOf(last')
         /\ last'.args[1] \in DOMAIN wd
         /\ ~AlreadyStaged(last'.args[1], index))
        => \/ /\ index' = index
              /\ last'.out = <<Msg("ErrorUpdatingIndex")>>
           \/ /\ index'.exists
              /\ splitLines(index'.data) = Append(IndexLines(index), last'.args[1])
              /\ last'.out = <<Out("Added", last'.args[1], 0, <<>>)>> ]_vars

\* the paths of the last commit that are not staged now
TrackedUnstaged == LastCommitted \ Range(IndexLines(index))

\* the working file and the snapshot of f in the last commit can both be read
BothReadable(f) ==
    LET id == history[Len(history)].id
    IN  f \in DOMAIN wd /\ id \in DOMAIN objects /\ f \in DOMAIN objects[id]

\* status lists under Modified the unstaged paths of the last commit whose
\* working file and snapshot are readable and differ, and lists in no section
\* those of which one cannot be read
ModifiedAsDefined(l) ==
    /\ l.modified = {f \in TrackedUnstaged :
                        /\ BothReadable(f)
                        /\ wd[f] # objects[history[Len(history)].id][f]}
    /\ \A f \in TrackedUnstaged :
          ~BothReadable(f)
              => /\ f \notin l.staged
                 /\ f \notin Range(l.untracked)
                 /\ f \notin l.modified

\* C22 as stated: status lists a path under Modified exactly when it is in the
\* last commit's file set, is not staged, and the working file and its snapshot
\* are both readable with differing bytes; a last-committed, unstaged path of
\* which one of the two cannot be read is listed in no section.
C22_Original == (last.cmd = "status" /\ marker) => ModifiedAsDefined(last)

\* C22 amended: the same when every commit message is a single line and the
\* file names of the last commit hold none of ",", "[", "]" and space.
C22_Modified ==
    (last.cmd = "status" /\ marker /\ LogReadsBack) => ModifiedAsDefined(last)

\* of the last commit, an edited file is listed and a deleted one is not
C22_Witness ==
    /\ last.cmd = "status"
    /\ LogReadsBack
    /\ history # <<>>
    /\ last.modified = { <<"a">> }
    /\ index.data = <<>>
    /\ wd[<<"a">>] = <<"2">>
    /\ objects[history[Len(history)].id][<<"a">>] = <<"1">>

\* the add of f reported Added, and f is neither a line of the index nor in
\* the file list of a commit of the log
Lost(f) ==
    /\ f \in reports.added
    /\ f \notin Range(IndexLines(index))
    /\ \A h \in Range(history) : f \notin Range(h.files)

\* no invocation is in flight
Quiet == \A p \in Procs : running[p].pc = "idle"

\* C23: without a lock, invocations that run at the same time can lose a
\* staged path: a state is reachable (C23_Witness) in which a path whose add
\* reported Added is neither in the index nor in a commit of the log; and a
\* path is lost in this way only when two adds, or an add and a commit, ran
\* at the same time.
C23_LostByOverlap ==
    (\E f \in PlainNames : Lost(f))
        => reports.overlaps \cap { {"add"}, {"add", "commit"} } # {}

\* an add and a commit ran at the same time, no two adds did, both have
\* ended, and a path reported Added is lost
C23_Witness ==
    /\ Quiet
    /\ reports.overlaps = { {"add", "commit"} }
    /\ \E f \in PlainNames : Lost(f)
    /\ history # <<>>

\* two adds ran at the same time, nothing else did, both have ended, and a
\* path reported Added is lost
TwoAddsLose ==
    /\ Quiet
    /\ reports.overlaps = { {"add"} }
    /\ history = <<>>
    /\ \E f \in PlainNames : Lost(f)

\* the files of the commits before the most recent one that are not in the
\* file list of the most recent one
EarlierOnly ==
    IF Len(history) < 2 THEN {}
    ELSE UNION { Range(history[i].files) : i \in 1..(Len(history) - 1) } \ LastCommitted

\* f is a file of the project root that is not staged
UnstagedFile(f) == f \in DOMAIN wd /\ f \notin Range(IndexLines(index))

\* C24 as stated: status lists an unstaged root-level file that was committed
\* in an earlier commit, and is not in the most recent commit's file list,
\* under Untracked and not under Modified, whether or not it was edited.
C24_Original ==
    (last.cmd = "status" /\ marker)
        => \A f \in EarlierOnly :
              UnstagedFile(f) => (f \in Range(last.untracked) /\ f \notin last.modified)

\* C24 amended: the same for a file not named .git, when every commit message
\* is a single line and the file names of the most recent commit hold none of
\* ",", "[", "]" and space.
C24_TrackedByLast ==
    (last.cmd = "status" /\ marker /\ LogReadsBack)
        => \A f \in EarlierOnly \ {DotGit} :
              UnstagedFile(f) => (f \in Range(last.untracked) /\ f \notin last.modified)

\* status after a second commit without the file a of the first, a edited
C24_Witness ==
    /\ last.cmd = "status"
    /\ LogReadsBack
    /\ Len(history) = 2
    /\ history[1].files = << <<"a">> >>
    /\ <<"a">> \in EarlierOnly
    /\ UnstagedFile(<<"a">>)
    /\ wd[<<"a">>] # history[1].bytes[<<"a">>]
    /\ <<"a">> \in Range(last.untracked)
    /\ last.modified = {}

\* C25: a commit that copied at least one file and ran to its end leaves the
\* index empty, also when it skipped staged paths: a skipped path is not in
\* the file list of the new commit and is not staged any more.
C25_SkippedUnstaged ==
    [][ (CommitOf(last') /\ PrintedIn(last', "Committed"))
        => /\ index' = File(<<>>)
           /\ Len(history') = Len(history) + 1
           /\ \A f \in Range(IndexLines(index)) :
                 Skipped(last', f)
                     => /\ f \notin Range(history'[Len(history')].files)
                        /\ f \notin Range(last'.committedFiles)
                        /\ f \notin Range(IndexLines(index')) ]_vars

\* the staged file a was deleted and skipped, b was committed, the index
\* is empty
C25_Witness ==
    /\ last.cmd = "commit"
    /\ last.out[1] = Out("WarnOpen", <<"a">>, 0, <<>>)
    /\ PrintedIn(last, "Committed")
    /\ history # <<>>
    /\ history[Len(history)].files = << <<"b">> >>
    /\ index = File(<<>>)
    /\ <<"a">> \notin DOMAIN wd

\* the invocation is status, log, help or version, or a command's --help
ReadOnlyRun(l) ==
    \/ l.cmd \in {"status", "log", "help", "version"}
    \/ l.out = <<Msg("CommandHelp")>>

\* C26: status, log, help and version are read-only: running any of them
\* leaves the marker directory, the index, the log, the objects tree and the
\* working files as they were.
C26_ReadOnly ==
    [][ ReadOnlyRun(last')
        => /\ marker' = marker
           /\ index' = index
           /\ log' = log
           /\ objects' = objects
           /\ wd' = wd ]_vars

\* log ran in a repository with a staged file and without a log file, and
\* there is still none
C26_Witness ==
    /\ last.cmd = "log"
    /\ last.out = <<Msg("NoCommitsYet")>>
    /\ marker
    /\ index.exists /\ index.data # <<>>
    /\ ~log.exists

====
